---- MODULE Spec2Model ----
(***************************************************************************)
(* py3status/modules/mpris.py: selection of the player to display, the    *)
(* text of the display, the refresh entry point mpris and the click       *)
(* handler on_click.                                                       *)
(*                                                                         *)
(* Python values: the object None is the string "py:None" (PyNone); the   *)
(* string 'None' that _get_state and _detect_running_player return is the *)
(* string "None".  An exception that leaves a function is the field       *)
(* raised of the function's result; "none" means it returned.             *)
(***************************************************************************)
EXTENDS Integers, Sequences, FiniteSets, TLC

\* ------------------------------------------------------------- bounds

\* longest player_priority, in comma-separated fields
MaxPriorityLen == 2

\* highest number of a physical button
NumButtons == 5

\* ---------------------------------------------------------- constants

PyNone == "py:None"

SERVICE_BUS == "org.mpris.MediaPlayer2"

UNKNOWN == "Unknown"

UNKNOWN_TIME == "-:--"

\* configuration defaults, lines 114-131.  A template is the sequence of its
\* literal pieces and placeholders; the glyphs are spelled in ASCII.
color_paused == PyNone

color_playing == PyNone

color_stopped == PyNone

format == <<"{state}", " ", "{artist}", " - ", "{title}">>

format_stream == <<"{state}", " ", "{title}">>

format_none == <<"no player running">>

state_pause == "||"

state_play == ">"

state_stop == "[]"

state_next == ">>"

state_previous == "<<"

\* a binding of None, as a number: no event carries button 0
NoButton == 0

\* lines 114-117: button_play, button_stop, button_next, button_previous
DefaultBindings ==
    [button_play |-> 1, button_stop |-> NoButton, button_next |-> 4,
     button_previous |-> 5]

\* line 119, as str.split(',') sees it
DefaultButtonsOrder == <<"previous", "play", "next">>

\* the host's palette, i3s_config
i3s_config ==
    [color_good |-> "color_good", color_degraded |-> "color_degraded",
     color_bad |-> "color_bad"]

\* names of player agents (the names of the module's documentation)
Players == {"mpd", "vlc", "bomi"}

\* a field of player_priority: a player that may run, one that never runs,
\* the wildcard
PriorityFields == Players \cup {"cantata", "*"}

\* player_priority = None, as a sequence: the empty one, which no string
\* splits to (str.split(',') returns at least one field)
NoPriority == <<>>

\* player_priority as str.split(',') sees it: the sequence of its fields, or
\* None
PriorityLists ==
    {NoPriority} \cup UNION {[1..n -> PriorityFields] : n \in 1..MaxPriorityLen}

\* ------------------------------------------------------------ helpers

InSeq(x, s) == \E i \in 1..Len(s) : s[i] = x

Range(s) == {s[i] : i \in 1..Len(s)}

NoDup(s) == \A i, j \in 1..Len(s) : s[i] = s[j] => i = j

\* list.remove(x): the first occurrence goes
RECURSIVE RemoveFirst(_, _)
RemoveFirst(s, x) ==
    IF s = <<>> THEN <<>>
    ELSE IF Head(s) = x THEN Tail(s)
    ELSE <<Head(s)>> \o RemoveFirst(Tail(s), x)

\* the sequences over S without a repeated element
RECURSIVE Orders(_)
Orders(S) ==
    {<<>>} \cup UNION {{<<x>> \o t : t \in Orders(S \ {x})} : x \in S}

\* ------------------------------------------------------- environment

\* what one agent answers while _get_state queries it: the connection fails
\* ("NoConnect"), or it succeeds and the read of PlaybackStatus raises
\* ("Error") or returns the status
Answers == {"Playing", "Paused", "Stopped", "NoConnect", "Error"}

\* the bus' own name, which ListNames reports first
DBusName == [bus |-> "org.freedesktop.DBus", name |-> ""]

\* the registered name of a player
ServiceName(p) == [bus |-> SERVICE_BUS, name |-> p]

\* one enumeration of the bus and the agents' answers during one scan
Scans ==
    UNION {{[names |-> <<DBusName>> \o [i \in 1..Len(o) |-> ServiceName(o[i])],
             answers |-> a] : a \in [Range(o) -> Answers]} : o \in Orders(Players)}

\* the Metadata dictionary: each key absent (dict.get gives None) or present.
\* xesam:artist is a list: empty ("[]") or of one name, written as the name.
Metadatas ==
    [url : {PyNone, "file:///music/song.mp3", "http://radio/stream"},
     title : {PyNone, "song.mp3"},
     album : {PyNone, "album"},
     artist : {PyNone, "[]", "artist"},
     length : {PyNone, "3:45"},
     trackid : {PyNone, "/track/1"}]

\* what the selected player answers to the queries of _get_text; "Error" is a
\* query that raises.  Position and mpris:length are given as the strings
\* _get_time_str makes of them.
Views ==
    [Identity : {"Error", "VLC media player"},
     PlaybackStatus : {"Error", "Playing", "Paused", "Stopped"},
     Position : {"Error", "0:45"},
     MetadataRaises : BOOLEAN,
     Metadata : Metadatas]

\* what a read of PlaybackStatus gives
StatusAnswers == {"Error", "Playing", "Paused", "Stopped"}

\* the rest of what one refresh meets: whether the connection of line 314
\* succeeds, and the read of PlaybackStatus of line 271
Cycles == [connect : BOOLEAN, ButtonsStatus : StatusAnswers]

Buttons == 1..NumButtons

Bindings ==
    [button_play : Buttons \cup {NoButton}, button_stop : Buttons \cup {NoButton},
     button_next : Buttons \cup {NoButton}, button_previous : Buttons \cup {NoButton}]

\* buttons_order as str.split(',') sees it: the default, all four buttons,
\* the empty string
ButtonsOrders ==
    {DefaultButtonsOrder, <<"play", "stop", "next", "previous">>, <<"">>}

ButtonsControls == {PyNone, "left", "right"}

\* self._player before mpris has assigned it
Unset == "py:unset"

VARIABLES
    player_priority,   \* configuration: the priority list
    buttons_control,   \* configuration: the side of the control glyphs
    buttons_order,     \* configuration: the glyphs, in order
    bindings,          \* configuration: button_play, ..., button_previous
    time_bound,        \* whether the global name time is bound (line 310)
    scan,              \* the bus as the handler under way sees it
    view,              \* the selected player as the handler under way sees it
    cycle,             \* the rest of what the refresh under way meets
    event,             \* the click under way
    _player,           \* self._player
    response,          \* the payload the host last got from mpris
    selected,          \* what the latest call of mpris selected
    result             \* what the last function run returned or raised

config == <<player_priority, buttons_control, buttons_order, bindings, time_bound>>

inputs == <<scan, view, cycle, event>>

vars == <<config, inputs, _player, response, selected, result>>

\* ------------------------------------------ _get_player / _get_state

\* _get_player: the handle (the player's name) or None; never raises
GetPlayer(player, connects) == IF connects THEN player ELSE PyNone

\* _get_state: 'None', the status, or the exception of the status read
GetState(player, answer) ==
    LET handle == GetPlayer(player, answer # "NoConnect") IN
    IF handle = PyNone THEN [raised |-> "none", value |-> "None"]
    ELSE IF answer = "Error" THEN [raised |-> "Exception", value |-> PyNone]
    ELSE [raised |-> "none", value |-> answer]

\* ------------------------------------------- _detect_running_player

\* lines 176-180: the names of the bus that hold SERVICE_BUS, prefix cut
RECURSIVE ListPlayers(_)
ListPlayers(names) ==
    IF names = <<>> THEN <<>>
    ELSE IF Head(names).bus = SERVICE_BUS
         THEN <<Head(names).name>> \o ListPlayers(Tail(names))
         ELSE ListPlayers(Tail(names))

\* Prioritize without players.remove(player_name)
RECURSIVE MutPrioritize(_, _, _)
MutPrioritize(fields, players, players_prioritized) ==
    IF fields = <<>>
    THEN [players |-> players, players_prioritized |-> players_prioritized]
    ELSE IF InSeq(Head(fields), players)
         THEN MutPrioritize(Tail(fields), players,
                            Append(players_prioritized, Head(fields)))
         ELSE MutPrioritize(Tail(fields), players, players_prioritized)

\* lines 187-190: the loop over the fields of player_priority
RECURSIVE Prioritize(_, _, _)
Prioritize(fields, players, players_prioritized) ==
    IF fields = <<>>
    THEN [players |-> players, players_prioritized |-> players_prioritized]
    ELSE IF InSeq(Head(fields), players)
         THEN Prioritize(Tail(fields), RemoveFirst(players, Head(fields)),
                         Append(players_prioritized, Head(fields)))
         ELSE Prioritize(Tail(fields), players, players_prioritized)

\* PlayersPrioritized without the test for the wildcard: the rest always follows
MutPlayersPrioritized(priority, players) ==
    IF priority = NoPriority THEN players
    ELSE LET r == Prioritize(priority, players, <<>>) IN
         r.players_prioritized \o r.players

\* lines 182-192: players_prioritized
PlayersPrioritized(priority, players) ==
    IF priority = NoPriority THEN players
    ELSE LET r == Prioritize(priority, players, <<>>) IN
         IF InSeq("*", priority)
         THEN r.players_prioritized \o r.players
         ELSE r.players_prioritized

\* ScanPlayers with the two remembered lists swapped in the final choice
RECURSIVE MutScanPlayers(_, _, _, _)
MutScanPlayers(candidates, answers, players_paused, players_stopped) ==
    IF candidates = <<>>
    THEN [raised |-> "none",
          value |-> IF players_stopped # <<>> THEN players_stopped[1]
                    ELSE IF players_paused # <<>> THEN players_paused[1]
                    ELSE "None"]
    ELSE LET player_name == Head(candidates)
             player_state == GetState(player_name, answers[player_name])
         IN IF player_state.raised # "none"
            THEN [raised |-> player_state.raised, value |-> PyNone]
            ELSE IF player_state.value = "Playing"
            THEN [raised |-> "none", value |-> player_name]
            ELSE IF player_state.value = "Paused"
            THEN MutScanPlayers(Tail(candidates), answers,
                                Append(players_paused, player_name), players_stopped)
            ELSE MutScanPlayers(Tail(candidates), answers,
                                players_paused, Append(players_stopped, player_name))

\* lines 194-209: the scan and the choice after it
RECURSIVE ScanPlayers(_, _, _, _)
ScanPlayers(candidates, answers, players_paused, players_stopped) ==
    IF candidates = <<>>
    THEN [raised |-> "none",
          value |-> IF players_paused # <<>> THEN players_paused[1]
                    ELSE IF players_stopped # <<>> THEN players_stopped[1]
                    ELSE "None"]
    ELSE LET player_name == Head(candidates)
             player_state == GetState(player_name, answers[player_name])
         IN IF player_state.raised # "none"
            THEN [raised |-> player_state.raised, value |-> PyNone]
            ELSE IF player_state.value = "Playing"
            THEN [raised |-> "none", value |-> player_name]
            ELSE IF player_state.value = "Paused"
            THEN ScanPlayers(Tail(candidates), answers,
                             Append(players_paused, player_name), players_stopped)
            ELSE ScanPlayers(Tail(candidates), answers,
                             players_paused, Append(players_stopped, player_name))

\* lines 167-209; beside the outcome, the local players_prioritized as the
\* scan found it
DetectRunningPlayer(priority, s) ==
    LET players_prioritized == PlayersPrioritized(priority, ListPlayers(s.names))
    IN [players_prioritized |-> players_prioritized]
       @@ ScanPlayers(players_prioritized, s.answers, <<>>, <<>>)

\* ------------------------------------------------- _get_state_format

\* Python's a or b
Or(a, b) == IF a \in {PyNone, ""} THEN b ELSE a

\* lines 152-165; status is what the read of PlaybackStatus gives
GetStateFormat(status) ==
    IF status = "Error" THEN [raised |-> "Exception"]
    ELSE IF status = "Playing"
    THEN [raised |-> "none", color |-> Or(color_playing, i3s_config.color_good),
          state |-> state_play]
    ELSE IF status = "Paused"
    THEN [raised |-> "none", color |-> Or(color_paused, i3s_config.color_degraded),
          state |-> state_pause]
    ELSE [raised |-> "none", color |-> Or(color_stopped, i3s_config.color_bad),
          state |-> state_stop]

\* ---------------------------------------------------------- _get_text

\* len(metadata)
DictLen(metadata) == Cardinality({k \in DOMAIN metadata : metadata[k] # PyNone})

\* 'file://' in url
HasFileScheme(url) == url = "file:///music/song.mp3"

\* re.sub(r'\....$', '', title): a dot and three characters at the end go
StripExtension(title) == IF title = "song.mp3" THEN "song" ELSE title

\* str.format over a template
Format(template, args) ==
    [i \in 1..Len(template) |->
        IF template[i] \in DOMAIN args THEN args[template[i]] ELSE template[i]]

\* lines 215-222: the locals before the try; color is not bound yet
TextLocals ==
    [is_stream |-> FALSE, player |-> UNKNOWN, state |-> UNKNOWN, artist |-> UNKNOWN,
     album |-> UNKNOWN, length |-> UNKNOWN_TIME, time |-> UNKNOWN_TIME,
     title |-> UNKNOWN, color |-> PyNone]

\* lines 232-249: the branch on the metadata; failed says an exception left it
ReadMetadata(l, metadata) ==
    IF DictLen(metadata) > 0
    THEN IF metadata.url = PyNone
         THEN [l |-> l, failed |-> TRUE]
         ELSE LET l1 == [l EXCEPT !.is_stream = ~HasFileScheme(metadata.url),
                                  !.title = Or(metadata.title, UNKNOWN),
                                  !.album = Or(metadata.album, UNKNOWN)]
              IN IF metadata.artist = "[]"
                 THEN [l |-> l1, failed |-> TRUE]
                 ELSE LET l2 == IF metadata.artist # PyNone
                                THEN [l1 EXCEPT !.artist = metadata.artist]
                                ELSE [l1 EXCEPT !.is_stream = TRUE]
                      IN [l |-> IF metadata.length # PyNone
                                THEN [l2 EXCEPT !.length = metadata.length]
                                ELSE l2,
                          failed |-> FALSE]
    ELSE [l |-> [l EXCEPT !.is_stream = TRUE], failed |-> FALSE]

\* lines 224-249: the try block, left at the first query that raises
TryQueries(v) ==
    IF v.Identity = "Error" THEN [l |-> TextLocals, failed |-> TRUE]
    ELSE LET l1 == [TextLocals EXCEPT !.player = v.Identity]
             sf == GetStateFormat(v.PlaybackStatus)
         IN IF sf.raised # "none" THEN [l |-> l1, failed |-> TRUE]
            ELSE LET l2 == [l1 EXCEPT !.color = sf.color, !.state = sf.state]
                 IN IF v.Position = "Error" THEN [l |-> l2, failed |-> TRUE]
                    ELSE LET l3 == [l2 EXCEPT !.time = v.Position]
                         IN IF v.MetadataRaises THEN [l |-> l3, failed |-> TRUE]
                            ELSE ReadMetadata(l3, v.Metadata)

\* lines 211-266: the pair (text, color) returned; beside it the template
\* chosen and whether the except branch ran
GetText(v) ==
    LET t == TryQueries(v)
        color == IF t.failed THEN i3s_config.color_bad ELSE t.l.color
        title == IF t.l.is_stream THEN StripExtension(t.l.title) ELSE t.l.title
        args == [x \in {"{player}", "{state}", "{album}", "{artist}", "{length}",
                        "{time}", "{title}"} |->
                    CASE x = "{player}" -> t.l.player
                      [] x = "{state}" -> t.l.state
                      [] x = "{album}" -> t.l.album
                      [] x = "{artist}" -> t.l.artist
                      [] x = "{length}" -> t.l.length
                      [] x = "{time}" -> t.l.time
                      [] x = "{title}" -> title]
    IN [raised |-> "none",
        text |-> Format(IF t.l.is_stream THEN format_stream ELSE format, args),
        color |-> color,
        format |-> IF t.l.is_stream THEN "format_stream" ELSE "format",
        failed |-> t.failed]

\* ---------------------------------------------- _get_response_buttons

\* lines 276-301: one entry for each known name of buttons_order
RECURSIVE ButtonEntries(_, _)
ButtonEntries(order, state) ==
    IF order = <<>> THEN <<>>
    ELSE LET button == Head(order)
             glyph == CASE button = "play" -> state
                        [] button = "stop" -> state_stop
                        [] button = "next" -> state_next
                        [] button = "previous" -> state_previous
                        [] OTHER -> ""
         IN (IF button \in {"play", "stop", "next", "previous"}
             THEN <<[color |-> "#CCCCCC", full_text |-> <<" ", glyph, " ">>,
                     index |-> button]>>
             ELSE <<>>) \o ButtonEntries(Tail(order), state)

\* lines 268-303; status is what the read of PlaybackStatus gives
GetResponseButtons(status, order) ==
    IF status = "Error" THEN [raised |-> "Exception", response |-> <<>>]
    ELSE [raised |-> "none",
          response |-> ButtonEntries(order, IF status = "Playing" THEN state_pause
                                            ELSE state_play)]

\* -------------------------------------------------------------- mpris

\* lines 316-343, given the handle and what _get_text and
\* _get_response_buttons give for it
Compose(control, handle, t, b) ==
    IF handle = PyNone
    THEN [raised |-> "none",
          response |-> [composite |->
              <<[full_text |-> format_none, color |-> i3s_config.color_bad,
                 index |-> "text"]>>]]
    ELSE IF b.raised # "none" THEN [raised |-> b.raised, response |-> PyNone]
    ELSE LET buttons_control_ == IF Len(b.response) = 0 THEN PyNone ELSE control
             response_text == [full_text |-> t.text, color |-> t.color,
                               index |-> "text"]
         IN [raised |-> "none",
             response |-> [composite |->
                 IF buttons_control_ = "left" THEN b.response \o <<response_text>>
                 ELSE IF buttons_control_ = "right" THEN <<response_text>> \o b.response
                 ELSE <<response_text>>]]

\* lines 305-343, given what _detect_running_player returned (d), whether the
\* connection of line 314 succeeds, and what the two renderers give.  assigned
\* says line 314 ran; cached_until, a clock value, is left out of the payload.
Mpris(bound, control, d, connects, t, b) ==
    IF ~bound THEN [raised |-> "NameError", assigned |-> FALSE]
    ELSE IF d.raised # "none" THEN [raised |-> d.raised, assigned |-> FALSE]
    ELSE LET handle == GetPlayer(d.value, connects /\ d.value \in Players)
         IN [assigned |-> TRUE, running_player |-> d.value, player |-> handle]
            @@ Compose(control, handle, t, b)

\* mpris as the handler of the refresh: self._player and the payload of the
\* host after it
Refreshed(m) ==
    /\ _player' = IF m.assigned THEN m.player ELSE _player
    /\ selected' = IF m.assigned THEN m.player ELSE "py:raised"
    /\ response' = IF m.raised = "none" THEN m.response ELSE response
    /\ result' = [op |-> "mpris", raised |-> m.raised, assigned |-> m.assigned,
                  running_player |-> IF m.assigned THEN m.running_player ELSE PyNone]

\* ----------------------------------------------------------- on_click

\* Route with a control glyph answering to every button
MutRoute(index, button, b) ==
    IF index = "text"
    THEN IF button = b.button_play THEN "PlayPause"
         ELSE IF button = b.button_stop THEN "Stop"
         ELSE IF button = b.button_next THEN "Next"
         ELSE IF button = b.button_previous THEN "Previous"
         ELSE "none"
    ELSE IF index = "play" THEN "PlayPause"
         ELSE IF index = "stop" THEN "Stop"
         ELSE IF index = "next" THEN "Next"
         ELSE IF index = "previous" THEN "Previous"
         ELSE "none"

\* lines 352-370: the method the event is routed to, "none" if to none
Route(index, button, b) ==
    IF index = "text"
    THEN IF button = b.button_play THEN "PlayPause"
         ELSE IF button = b.button_stop THEN "Stop"
         ELSE IF button = b.button_next THEN "Next"
         ELSE IF button = b.button_previous THEN "Previous"
         ELSE "none"
    ELSE IF button = 1
         THEN IF index = "play" THEN "PlayPause"
              ELSE IF index = "stop" THEN "Stop"
              ELSE IF index = "next" THEN "Next"
              ELSE IF index = "previous" THEN "Previous"
              ELSE "none"
         ELSE "none"

\* lines 345-370: the calls made on the handle, and the exception if one
\* leaves on_click; e.answers says the agent answers the call
OnClick(e, player, b) ==
    LET method == Route(e.index, e.button, b) IN
    IF method = "none" THEN [raised |-> "none", calls |-> <<>>]
    ELSE IF player \in {PyNone, Unset} THEN [raised |-> "AttributeError", calls |-> <<>>]
    ELSE [raised |-> IF e.answers THEN "none" ELSE "Exception",
          calls |-> <<[target |-> player, method |-> method]>>]

\* the logical indices the host can report: those of the payload it shows
Indices(r) == {r.composite[i].index : i \in 1..Len(r.composite)}

Events(r) == [index : Indices(r), button : Buttons, answers : BOOLEAN]

NoResponse == [composite |-> <<>>]

NoEvent == [index |-> "text", button |-> 1, answers |-> TRUE]

PlainCycle == [connect |-> TRUE, ButtonsStatus |-> "Stopped"]

\* --------------------------------------------------------- SpecDetect
\* _detect_running_player alone, on every priority list and every scan

NotRun == [op |-> "none", raised |-> "none"]

\* an enumeration that finds the bus alone
NoScan == [names |-> <<DBusName>>, answers |-> <<>>]

\* a player that answers every query, with no metadata
PlainView ==
    [Identity |-> "VLC media player", PlaybackStatus |-> "Stopped",
     Position |-> "0:45", MetadataRaises |-> FALSE,
     Metadata |-> [url |-> PyNone, title |-> PyNone, album |-> PyNone,
                   artist |-> PyNone, length |-> PyNone, trackid |-> PyNone]]

\* the configuration of lines 114-131 and a program that has run nothing
Idle ==
    /\ buttons_control = PyNone
    /\ buttons_order = DefaultButtonsOrder
    /\ bindings = DefaultBindings
    /\ time_bound = TRUE
    /\ cycle = PlainCycle
    /\ event = NoEvent
    /\ _player = Unset
    /\ response = NoResponse
    /\ selected = Unset
    /\ result = NotRun

InitDetect ==
    /\ Idle
    /\ player_priority \in PriorityLists
    /\ scan \in Scans
    /\ view = PlainView

Detect ==
    /\ result.op = "none"
    /\ result' = [op |-> "_detect_running_player"]
                 @@ DetectRunningPlayer(player_priority, scan)
    /\ UNCHANGED <<config, inputs, _player, response, selected>>

NextDetect == Detect

SpecDetect == InitDetect /\ [][NextDetect]_vars

\* ----------------------------------------------------------- SpecText
\* _get_text alone, on every answer of the selected player

InitText ==
    /\ Idle
    /\ player_priority = NoPriority
    /\ scan = NoScan
    /\ view \in Views

Text ==
    /\ result.op = "none"
    /\ result' = [op |-> "_get_text"] @@ GetText(view)
    /\ UNCHANGED <<config, inputs, _player, response, selected>>

NextText == Text

SpecText == InitText /\ [][NextText]_vars

\* -------------------------------------------------------- SpecRefresh
\* one call of mpris, on every scan and on the answers of the selected player

NoMetadata == PlainView.Metadata

TrackMetadata ==
    [url |-> "file:///music/song.mp3", title |-> "song.mp3", album |-> "album",
     artist |-> "artist", length |-> "3:45", trackid |-> "/track/1"]

UntaggedMetadata == [NoMetadata EXCEPT !.title = "song.mp3", !.trackid = "/track/1"]

\* the views of one refresh: three dictionaries, and no answer told apart
\* after the query that raises, which is the last one _get_text makes
RefreshViews ==
    {v \in Views :
        /\ v.Metadata \in {NoMetadata, TrackMetadata, UntaggedMetadata}
        /\ v.Identity = "Error" => v.PlaybackStatus = PlainView.PlaybackStatus
        /\ "Error" \in {v.Identity, v.PlaybackStatus} => v.Position = PlainView.Position
        /\ "Error" \in {v.Identity, v.PlaybackStatus, v.Position} => ~v.MetadataRaises
        /\ ("Error" \in {v.Identity, v.PlaybackStatus, v.Position} \/ v.MetadataRaises)
               => v.Metadata = NoMetadata}

\* whether mpris, on this scan, gets to query a selected player
Queries(priority, s, connects) ==
    LET d == DetectRunningPlayer(priority, s)
    IN d.raised = "none" /\ d.value \in Players /\ connects

\* the inputs no line of the call reads are the plain ones
InitRefresh ==
    /\ player_priority = NoPriority
    /\ buttons_control \in ButtonsControls
    /\ buttons_order = DefaultButtonsOrder
    /\ bindings = DefaultBindings
    /\ time_bound \in BOOLEAN
    /\ scan \in IF time_bound THEN Scans ELSE {NoScan}
    /\ cycle \in {c \in Cycles :
                    /\ c.connect \/ (time_bound
                                     /\ DetectRunningPlayer(player_priority, scan).raised = "none"
                                     /\ DetectRunningPlayer(player_priority, scan).value \in Players)
                    /\ (c.ButtonsStatus # PlainCycle.ButtonsStatus)
                           => (time_bound /\ Queries(player_priority, scan, c.connect))}
    /\ view \in IF time_bound /\ Queries(player_priority, scan, cycle.connect)
                THEN RefreshViews ELSE {PlainView}
    /\ event = NoEvent
    /\ _player = Unset
    /\ response = NoResponse
    /\ selected = Unset
    /\ result = NotRun

RefreshOnce ==
    /\ result.op = "none"
    /\ Refreshed(Mpris(time_bound, buttons_control,
                       DetectRunningPlayer(player_priority, scan), cycle.connect,
                       GetText(view),
                       GetResponseButtons(cycle.ButtonsStatus, buttons_order)))
    /\ UNCHANGED <<config, inputs>>

NextRefresh == RefreshOnce

SpecRefresh == InitRefresh /\ [][NextRefresh]_vars

\* ---------------------------------------------------------- SpecClick
\* one call of on_click, under every binding, after a refresh that returned

\* the payload of a refresh that selected handle and found it idle
Shown(control, order, handle) ==
    Compose(control, handle, GetText(PlainView),
            GetResponseButtons(PlainView.PlaybackStatus, order)).response

InitClick ==
    /\ player_priority = NoPriority
    /\ buttons_control = "left"
    /\ buttons_order = <<"play", "stop", "next", "previous">>
    /\ bindings \in Bindings
    /\ time_bound = TRUE
    /\ scan = NoScan
    /\ view = PlainView
    /\ cycle = PlainCycle
    /\ _player \in Players \cup {PyNone}
    /\ selected = _player
    /\ response = Shown(buttons_control, buttons_order, _player)
    /\ event \in Events(response)
    /\ result = [op |-> "mpris", raised |-> "none", assigned |-> TRUE,
                 running_player |-> IF _player = PyNone THEN "None" ELSE _player]

ClickOnce ==
    /\ result.op = "mpris"
    /\ result' = [op |-> "on_click"] @@ OnClick(event, _player, bindings)
    /\ UNCHANGED <<config, inputs, _player, response, selected>>

NextClick == ClickOnce

SpecClick == InitClick /\ [][NextClick]_vars

\* --------------------------------------------------------------- Spec
\* the module under its host: mpris and on_click called one after the other,
\* in any order, the players changing at will in between

\* what _detect_running_player can return, or raise, under the default
\* player_priority, over all scans
DetectOutcomes ==
    {[raised |-> r.raised, value |-> r.value] :
        r \in {DetectRunningPlayer(NoPriority, s) : s \in Scans}}

\* the pairs (text, color) _get_text can return, over all views
TextOutcomes ==
    {[text |-> r.text, color |-> r.color] : r \in {GetText(v) : v \in Views}}

Init ==
    /\ buttons_control \in ButtonsControls
    /\ buttons_order \in ButtonsOrders
    /\ bindings = DefaultBindings
    /\ time_bound \in BOOLEAN
    /\ player_priority = NoPriority
    /\ scan = NoScan
    /\ view = PlainView
    /\ cycle = PlainCycle
    /\ event = NoEvent
    /\ _player = Unset
    /\ response = NoResponse
    /\ selected = Unset
    /\ result = NotRun

Refresh ==
    /\ \E d \in DetectOutcomes, connects \in BOOLEAN, t \in TextOutcomes,
          status \in StatusAnswers :
          Refreshed(Mpris(time_bound, buttons_control, d, connects, t,
                          GetResponseButtons(status, buttons_order)))
    /\ UNCHANGED <<config, inputs>>

Click ==
    /\ \E e \in Events(response) :
          result' = [op |-> "on_click"] @@ OnClick(e, _player, bindings)
    /\ UNCHANGED <<config, inputs, _player, response, selected>>

Next == Refresh \/ Click

Spec == Init /\ [][Next]_vars

\* ------------------------------------- claims on _detect_running_player

Detected == result.op = "_detect_running_player"

\* the players of the enumeration, in its order
Enumerated == [i \in 1..(Len(scan.names) - 1) |-> scan.names[i + 1].name]

Running == Range(Enumerated)

AnyIn(order, S) == \E i \in 1..Len(order) : scan.answers[order[i]] \in S

FirstIn(order, S) ==
    order[CHOOSE i \in 1..Len(order) :
            /\ scan.answers[order[i]] \in S
            /\ \A j \in 1..(i - 1) : scan.answers[order[j]] \notin S]

\* the first Playing candidate, else the first Paused, else the first of the
\* states in stopped, else 'None'
Ranked(order, stopped) ==
    IF AnyIn(order, {"Playing"}) THEN FirstIn(order, {"Playing"})
    ELSE IF AnyIn(order, {"Paused"}) THEN FirstIn(order, {"Paused"})
    ELSE IF AnyIn(order, stopped) THEN FirstIn(order, stopped)
    ELSE "None"

\* C1: whenever _detect_running_player returns, it returns the first candidate
\* of the candidate order that is Playing, else the first Paused, else the
\* first Stopped/Unknown (a candidate that cannot be connected to has the state
\* 'None'); it returns 'None' only for an empty candidate order; without a
\* priority list the candidate order is the enumeration order.
C1_StateBeforePriority ==
    (Detected /\ result.raised = "none") =>
        /\ result.value = Ranked(result.players_prioritized, {"Stopped", "NoConnect"})
        /\ (result.value = "None") <=> (result.players_prioritized = <<>>)
        /\ (player_priority = NoPriority) => (result.players_prioritized = Enumerated)

\* C1 witness: a priority list whose second candidate, Playing, is returned
\* over its first, Paused
C1_Witness ==
    /\ Detected /\ result.raised = "none"
    /\ player_priority # NoPriority
    /\ result.players_prioritized = player_priority
    /\ Len(result.players_prioritized) >= 2
    /\ scan.answers[result.players_prioritized[1]] = "Paused"
    /\ scan.answers[result.players_prioritized[2]] = "Playing"
    /\ result.value = result.players_prioritized[2]

\* C2: with a priority list that holds no wildcard, a running player the list
\* does not name is never returned, and a list that names no running player
\* yields 'None'.
C2_UnlistedNeverSelected ==
    (Detected /\ player_priority # NoPriority /\ ~InSeq("*", player_priority)) =>
        /\ (result.raised = "none") => (result.value \notin Running \ Range(player_priority))
        /\ (Range(player_priority) \cap Running = {}) =>
               (result.raised = "none" /\ result.value = "None")

\* C2 witness: the only running players are unlisted, one of them Playing, and
\* the result is 'None'
C2_Witness ==
    /\ Detected
    /\ player_priority # NoPriority /\ ~InSeq("*", player_priority)
    /\ Range(player_priority) \cap Running = {}
    /\ \E p \in Running : scan.answers[p] = "Playing"
    /\ result.value = "None"

\* the candidate order when the wildcard acts where it stands in the list
RECURSIVE PositionalOrder(_, _, _)
PositionalOrder(fields, pool, order) ==
    IF fields = <<>> THEN order
    ELSE IF Head(fields) = "*" THEN PositionalOrder(Tail(fields), <<>>, order \o pool)
    ELSE IF InSeq(Head(fields), pool)
         THEN PositionalOrder(Tail(fields), RemoveFirst(pool, Head(fields)),
                              Append(order, Head(fields)))
         ELSE PositionalOrder(Tail(fields), pool, order)

PositionOf(x, s) == CHOOSE i \in 1..Len(s) : s[i] = x /\ \A j \in 1..(i - 1) : s[j] # x

\* the players a priority list names
Listed == {p \in Running : InSeq(p, player_priority)}

IsUnlisted(p) == p \notin Listed

\* no name twice; with the wildcard, every running player
OnceEach(order) ==
    /\ NoDup(order)
    /\ InSeq("*", player_priority) => Range(order) = Running

\* C3 as stated: the wildcard appends the pool as it is when the wildcard's
\* turn comes.  Violated: for "*,vlc" with mpd and vlc running the code yields
\* vlc, mpd.
C3_WildcardInPlace ==
    (Detected /\ player_priority # NoPriority) =>
        /\ result.players_prioritized =
               PositionalOrder(player_priority, Enumerated, <<>>)
        /\ OnceEach(result.players_prioritized)

\* C3 amended: the listed running players come first, in the order of the
\* list; the wildcard, wherever it stands in the list, appends after all of
\* them the players the list does not name, in enumeration order; no name
\* twice, and with the wildcard every running player.
C3_WildcardLast ==
    (Detected /\ player_priority # NoPriority) =>
        LET order == result.players_prioritized
            k == Cardinality(Listed)
        IN /\ Len(order) = IF InSeq("*", player_priority) THEN Len(Enumerated) ELSE k
           /\ \A i \in 1..k : order[i] \in Listed
           /\ \A i, j \in 1..k :
                  i < j => PositionOf(order[i], player_priority)
                               < PositionOf(order[j], player_priority)
           /\ InSeq("*", player_priority) =>
                  SubSeq(order, k + 1, Len(order)) = SelectSeq(Enumerated, IsUnlisted)
           /\ OnceEach(order)

\* C3 witness: the wildcard stands first, a listed player follows it, and the
\* listed player leads two players the wildcard brought
C3_Witness ==
    /\ Detected /\ result.raised = "none"
    /\ Len(player_priority) = 2
    /\ player_priority[1] = "*"
    /\ Len(result.players_prioritized) = 3
    /\ result.players_prioritized[1] = player_priority[2]

\* C9 as stated: a candidate whose state cannot be queried, at the connection
\* or at the read of the status, ranks as Stopped/Unknown, and
\* _detect_running_player returns.  Violated: the read of PlaybackStatus is
\* outside any try.
C9_FailedQueryIsStopped ==
    Detected =>
        /\ result.raised = "none"
        /\ result.value = Ranked(result.players_prioritized,
                                 {"Stopped", "NoConnect", "Error"})

\* ------------------------------------------------- claims on _get_text

\* _get_text ran, every query of the player was answered, and the artist
\* list, if there is one, holds a name
MetadataRead ==
    /\ result.op = "_get_text"
    /\ view.Metadata.artist # "[]"
    /\ view.Identity # "Error" /\ view.PlaybackStatus # "Error"
    /\ view.Position # "Error" /\ ~view.MetadataRaises

\* C8 as stated: the stream template is chosen exactly when the metadata is
\* empty, or holds no artist, or its url does not name a local file (read
\* in the code's favour: a url that is there and not a file:// one); in
\* particular metadata with no artist gets the stream template whatever its
\* other fields.  Violated: metadata without xesam:url raises at line 233
\* before is_stream is set, so the track template is used although there is
\* no artist.
C8_StreamTemplate ==
    MetadataRead =>
        ((result.format = "format_stream") <=>
            \/ DictLen(view.Metadata) = 0
            \/ view.Metadata.artist = PyNone
            \/ (view.Metadata.url # PyNone /\ ~HasFileScheme(view.Metadata.url)))

\* ------------------------------------------------------ claims on mpris

\* mpris ran and line 314 gave self._player a handle
PlayerSelected == result.op = "mpris" /\ result.assigned /\ _player # PyNone

\* a dictionary _get_text cannot read
Malformed(metadata) ==
    DictLen(metadata) > 0 /\ (metadata.url = PyNone \/ metadata.artist = "[]")

\* a query of the selected player fails, or its metadata is malformed
QueryFails ==
    \/ "Error" \in {view.Identity, view.PlaybackStatus, view.Position,
                    cycle.ButtonsStatus}
    \/ view.MetadataRaises
    \/ Malformed(view.Metadata)

\* the payload holds a text entry with text in it and the bad color
BadTextShown ==
    \E i \in 1..Len(response.composite) :
        /\ response.composite[i].index = "text"
        /\ response.composite[i].color = i3s_config.color_bad
        /\ \E j \in 1..Len(response.composite[i].full_text) :
               response.composite[i].full_text[j] # ""

\* C4 as stated: when a query of the selected player fails, or its metadata
\* is malformed, mpris still returns, and the payload holds a text entry with
\* non-empty text and the bad color.  Violated: the read of PlaybackStatus in
\* _get_response_buttons (line 271) is outside any try.
C4_RefreshSurvivesQueryFailure ==
    (PlayerSelected /\ QueryFails) => (result.raised = "none" /\ BadTextShown)

\* the candidates of the scan of the refresh
Candidates == PlayersPrioritized(player_priority, ListPlayers(scan.names))

\* the candidates the connection to which fails: in the scan, or at line 314
Unconnectable ==
    {p \in Range(Candidates) :
        \/ scan.answers[p] = "NoConnect"
        \/ (p = result.running_player /\ ~cycle.connect)}

NoPlayerShown ==
    \E i \in 1..Len(response.composite) :
        response.composite[i].full_text = format_none

\* C10 as stated, for a refresh that returns while some candidate can be
\* connected to: no candidate the connection to which fails is what the
\* refresh selects, and the refresh does not show 'no player'.  Violated:
\* _get_state gives an unconnectable candidate the state 'None', which the
\* scan files with the Stopped ones, and line 314 tries no second candidate.
C10_UnconnectableExcluded ==
    (result.op = "mpris" /\ result.raised = "none"
        /\ Range(Candidates) \ Unconnectable # {}) =>
        /\ result.running_player \notin Unconnectable
        /\ ~NoPlayerShown

\* --------------------------------------------------- claims on on_click

ControlGlyphs == {"play", "stop", "next", "previous"}

\* the command of a control glyph
GlyphCommand(index) ==
    CASE index = "play" -> "PlayPause"
      [] index = "stop" -> "Stop"
      [] index = "next" -> "Next"
      [] index = "previous" -> "Previous"

\* a control glyph is on the bar only while self._player is a handle: the
\* state in which SpecClick clicks on one
GlyphHasPlayer ==
    (Indices(response) \cap ControlGlyphs # {}) => _player \notin {PyNone, Unset}

\* C5 as stated: on_click never raises.  Violated: no call of lines 354-370 is
\* inside a try, and self._player may be None.
C5_ClickNeverRaises ==
    (result.op = "on_click") => (result.raised = "none")

\* C6 as stated: a command on_click dispatches goes to the handle the latest
\* refresh selected.  Violated: a refresh that raises before line 314 selects
\* nothing and leaves the handle of an earlier one in place.
C6_TargetIsLatestSelection ==
    (result.op = "on_click" /\ result.calls # <<>>) =>
        result.calls[1].target = selected

\* C7: a click on a control glyph with button 1 makes exactly one call, the
\* glyph's command; with any other button it makes none, whatever the
\* bindings are.
C7_GlyphNeedsButtonOne ==
    (result.op = "on_click" /\ event.index \in ControlGlyphs) =>
        IF event.button = 1
        THEN /\ Len(result.calls) = 1
             /\ result.calls[1].method = GlyphCommand(event.index)
        ELSE result.calls = <<>>

\* C7 witness: button 4, bound to Next on the text, pressed on the glyph of
\* Previous, with button 1 bound to nothing: no call
C7_Witness ==
    /\ result.op = "on_click"
    /\ event.index = "previous" /\ event.button = 4
    /\ bindings.button_next = 4 /\ bindings.button_play = NoButton
    /\ result.calls = <<>>

====
